---- MODULE Spec2Model ----
(***************************************************************************)
(* A model of treecorr/binnedcorr2.py: the construction of a two-point     *)
(* correlation object (BinnedCorr2.__init__ as called by the six derived   *)
(* classes), and the process / write / clear methods of those classes.     *)
(*                                                                         *)
(* Numbers.  Python floats are modelled as exact rationals <<num, den>>    *)
(* (separations) and as integers in thousandths (bin_size, ln, bin_slop).  *)
(* A dict is a function whose DOMAIN is the set of keys present.  An       *)
(* exception is a record [type, msg]; a call that raises leaves the        *)
(* object as it was, and a constructor that raises yields no object.       *)
(***************************************************************************)
EXTENDS Integers, Sequences, FiniteSets, TLC

VARIABLES
    kind,       \* the derived class being constructed
    config,     \* the constructor's config argument: [none, d]
    kwargs,     \* the constructor's **kwargs, a dict
    logger,     \* the constructor's logger argument: NoLogger or a logger
    self,       \* the object: [alive, config, logger, min_sep, ...]
    records,    \* the info records each logger has received
    exc,        \* the exception the last call raised, or NoExc
    lastCall    \* the last call made: [op, nargs]

vars == <<kind, config, kwargs, logger, self, records, exc, lastCall>>

(***************************************************************************)
(* Bounds of the model.                                                    *)
(***************************************************************************)
MaxSep == 2         \* supplied separations range over -1..MaxSep
MaxNbins == 2       \* supplied nbins range over -1..MaxNbins
MaxRecords == 2     \* info records a logger receives before calls stop
MaxRefs == 1        \* reference catalogs passed to write: 0..MaxRefs

(***************************************************************************)
(* Dicts.                                                                  *)
(***************************************************************************)
EmptyDict == [k \in {} |-> 0]

Entry(k, v) == [x \in {k} |-> v]

Has(d, k) == k \in DOMAIN d

\* dict.get(k, default)
Get(d, k, default) == IF k \in DOMAIN d THEN d[k] ELSE default

\* The dict a.update(b) leaves in a: the entries of b replace those of a.
UpdateConfigFirst(a, b) ==
    [k \in DOMAIN a \cup DOMAIN b |-> IF k \in DOMAIN a THEN a[k] ELSE b[k]]

Update(a, b) ==
    [k \in DOMAIN a \cup DOMAIN b |-> IF k \in DOMAIN b THEN b[k] ELSE a[k]]

BinningKeys == {"nbins", "min_sep", "max_sep", "bin_size"}

(***************************************************************************)
(* Exceptions.                                                             *)
(***************************************************************************)
NoExc == [type |-> "none", msg |-> ""]

Raise(t, m) == [type |-> t, msg |-> m]

(***************************************************************************)
(* Arithmetic.                                                             *)
(***************************************************************************)
Abs(x) == IF x < 0 THEN -x ELSE x

RECURSIVE GCD(_, _)
GCD(a, b) == IF b = 0 THEN a ELSE GCD(b, a % b)

\* math.ceil(a / b) for integers a, b with b # 0.
CeilDiv(a, b) == IF b > 0 THEN -((-a) \div b) ELSE -(a \div (-b))

\* 1000 * ln(n), rounded, for the integers the model's ratios reduce to.
LnTable == <<0, 693, 1099, 1386, 1609, 1792, 1946, 2079, 2197, 2303,
             2398, 2485>>

\* math.log(p / q) in thousandths, for p / q > 0.
Ln(p, q) ==
    LET g == GCD(Abs(p), Abs(q))
    IN  LnTable[Abs(p) \div g] - LnTable[Abs(q) \div g]

\* treecorr.angle_units: radians per unit, as a rational.
angle_units ==
    [radians |-> <<1, 1>>, degrees |-> <<240, 13751>>,
     arcmin |-> <<4, 13751>>, arcsec |-> <<1, 206265>>]

\* config[key] * sep_units
Times(v, u) == <<v * u[1], u[2]>>

NoRat == <<0, 1>>

(***************************************************************************)
(* Loggers.                                                                *)
(***************************************************************************)
NoLogger == [name |-> "None", verbose |-> 0, log_file |-> "None"]

UserLogger == [name |-> "user", verbose |-> 0, log_file |-> "None"]

\* treecorr.config.setup_logger(verbose, log_file)
setup_logger(verbose, log_file) ==
    [name |-> "treecorr", verbose |-> verbose, log_file |-> log_file]

LoggerNames == {"user", "treecorr"}

\* logger.info(msg): the records after lg has received msg.
Info(recs, lg, msg) == [recs EXCEPT ![lg.name] = Append(@, msg)]

(***************************************************************************)
(* BinnedCorr2.__init__                                                    *)
(***************************************************************************)
NoObject ==
    [alive |-> FALSE, config |-> EmptyDict, logger |-> NoLogger,
     min_sep |-> NoRat, max_sep |-> NoRat, bin_size |-> NoRat, nbins |-> 0,
     bin_slop |-> 0, dtype |-> "none", data |-> <<>>]

\* The outcome of a resolution branch that raises.
Fail(t, m) ==
    [exc |-> Raise(t, m), min_sep |-> NoRat, max_sep |-> NoRat,
     bin_size |-> NoRat, nbins |-> 0]

Resolved(lo, hi, bs, n) ==
    [exc |-> NoExc, min_sep |-> lo, max_sep |-> hi, bin_size |-> bs, nbins |-> n]

\* Line 68: sep_units is demanded unless the config has x_col.
MissingSepUnitsEitherCol(cfg) ==
    ~Has(cfg, "x_col") /\ ~Has(cfg, "y_col") /\ ~Has(cfg, "sep_units")

MissingSepUnits(cfg) == ~Has(cfg, "x_col") /\ ~Has(cfg, "sep_units")

\* Line 100: in the last branch nbins, bin_size and max_sep are present.
NeverOverConstrained(cfg) == FALSE

OverConstrained(cfg) == Has(cfg, "min_sep")

\* Line 82: int(math.ceil(L / bin_size)), L = math.log(max_sep / min_sep).
NbinsFromSize(L, bin_size) == CeilDiv(L, bin_size)

\* Line 91: L / nbins, normalised to a positive denominator.
BinSizeFromNbins(L, nbins) ==
    IF nbins > 0 THEN <<L, nbins>> ELSE <<-L, -nbins>>

\* math.log(max_sep / min_sep): the division, then the logarithm.
LogRatio(max_sep, min_sep) ==
    LET p == max_sep[1] * min_sep[2]
        q == max_sep[2] * min_sep[1]
    IN  IF q = 0 THEN [exc |-> Raise("ZeroDivisionError", "float division by zero"), v |-> 0]
        ELSE IF (p > 0) # (q > 0) \/ p = 0
             THEN [exc |-> Raise("ValueError", "math domain error"), v |-> 0]
        ELSE [exc |-> NoExc, v |-> Ln(p, q)]

\* Lines 72-105: the four branches, each on the parameter that is absent.
Resolve(cfg, sep_units) ==
    IF ~Has(cfg, "nbins") THEN
        IF ~Has(cfg, "max_sep")
        THEN Fail("AttributeError", "Missing required parameter max_sep")
        ELSE IF ~Has(cfg, "min_sep")
        THEN Fail("AttributeError", "Missing required parameter min_sep")
        ELSE IF ~Has(cfg, "bin_size")
        THEN Fail("AttributeError", "Missing required parameter bin_size")
        ELSE LET lo == Times(cfg["min_sep"], sep_units)
                 hi == Times(cfg["max_sep"], sep_units)
                 bs == cfg["bin_size"]
                 L == LogRatio(hi, lo)
             IN  IF L.exc # NoExc THEN Fail(L.exc.type, L.exc.msg)
                 ELSE IF bs = 0
                 THEN Fail("ZeroDivisionError", "float division by zero")
                 ELSE Resolved(lo, hi, <<bs, 1>>, NbinsFromSize(L.v, bs))
    ELSE IF ~Has(cfg, "bin_size") THEN
        IF ~Has(cfg, "max_sep")
        THEN Fail("AttributeError", "Missing required parameter max_sep")
        ELSE IF ~Has(cfg, "min_sep")
        THEN Fail("AttributeError", "Missing required parameter min_sep")
        ELSE LET lo == Times(cfg["min_sep"], sep_units)
                 hi == Times(cfg["max_sep"], sep_units)
                 n == cfg["nbins"]
                 L == LogRatio(hi, lo)
             IN  IF L.exc # NoExc THEN Fail(L.exc.type, L.exc.msg)
                 ELSE IF n = 0
                 THEN Fail("ZeroDivisionError", "float division by zero")
                 ELSE Resolved(lo, hi, BinSizeFromNbins(L.v, n), n)
    ELSE IF ~Has(cfg, "max_sep") THEN
        IF ~Has(cfg, "min_sep")
        THEN Fail("AttributeError", "Missing required parameter min_sep")
        \* line 98 calls exp, a name the module never binds
        ELSE Fail("NameError", "name 'exp' is not defined")
    ELSE
        IF OverConstrained(cfg)
        THEN Fail("AttributeError",
                  "Only 3 of min_sep, max_sep, bin_size, nbins are allowed.")
        \* line 105 calls exp, a name the module never binds
        ELSE Fail("NameError", "name 'exp' is not defined")

\* The outcome of a constructor that raises e.
Raised(e, recs) == [exc |-> e, self |-> NoObject, records |-> recs]

\* Lines 54-109.  cfgArg is the config argument ([none, d]), lg the logger
\* argument, kw the kwargs; recs the records of the loggers so far.
BinnedCorr2Init(cfgArg, lg, kw, recs) ==
    IF DOMAIN kw # {} /\ cfgArg.none
    THEN Raised(Raise("AttributeError",
                      "'NoneType' object has no attribute 'update'"), recs)
    ELSE IF lg = NoLogger /\ cfgArg.none
    THEN Raised(Raise("AttributeError",
                      "'NoneType' object has no attribute 'get'"), recs)
    ELSE IF cfgArg.none
    THEN Raised(Raise("TypeError",
                      "argument of type 'NoneType' is not iterable"), recs)
    ELSE
    LET cfg == IF DOMAIN kw # {} THEN Update(cfgArg.d, kw) ELSE cfgArg.d
        log == IF lg = NoLogger
               THEN setup_logger(Get(cfg, "verbose", 0), Get(cfg, "log_file", "None"))
               ELSE lg
        unit == Get(cfg, "sep_units", "arcsec")
    IN  IF MissingSepUnits(cfg)
        THEN Raised(Raise("AttributeError",
                          "sep_units is required if not using x_col,y_col"), recs)
        ELSE IF unit \notin DOMAIN angle_units
        THEN Raised(Raise("KeyError", unit), recs)
        ELSE
        LET r == Resolve(cfg, angle_units[unit])
        IN  IF r.exc # NoExc THEN Raised(r.exc, recs)
            ELSE [exc |-> NoExc,
                  self |-> [alive |-> TRUE, config |-> cfg, logger |-> log,
                            min_sep |-> r.min_sep, max_sep |-> r.max_sep,
                            bin_size |-> r.bin_size, nbins |-> r.nbins,
                            bin_slop |-> Get(cfg, "bin_slop", 1000),
                            dtype |-> "none", data |-> <<>>],
                  records |-> Info(recs, log, "nbins, min,max sep, bin_size")]

(***************************************************************************)
(* The derived classes.                                                    *)
(***************************************************************************)
Kinds ==
    {"G2Correlation", "N2Correlation", "K2Correlation",
     "NGCorrelation", "NKCorrelation", "KGCorrelation"}

\* The tag in each class's log messages.
Tag(k) == SubSeq(k, 1, 2)

\* dtype of numpy.zeros in each __init__ (lines 125, 144, 161, 178, 201, 218).
DType(k) ==
    IF k \in {"G2Correlation", "NGCorrelation", "KGCorrelation"}
    THEN "complex" ELSE "float"

\* A zero of the dtype: complex numbers are pairs <<re, im>>.
Zero(dtype) == IF dtype = "complex" THEN <<0, 0>> ELSE 0

\* numpy.zeros(n, dtype), n >= 0
Zeros(n, dtype) == [i \in 1..n |-> Zero(dtype)]

\* The logger each derived __init__ hands to BinnedCorr2.__init__: the
\* call is written BinnedCorr2.__init__(self, config, logger=None, **kwargs).
BaseLogger(lg) == NoLogger

\* <Kind>Correlation.__init__(config, logger, **kwargs)
DerivedInit(k, cfgArg, lg, kw, recs) ==
    LET b == BinnedCorr2Init(cfgArg, BaseLogger(lg), kw, recs)
    IN  IF b.exc # NoExc THEN b
        ELSE IF b.self.nbins < 0
        THEN Raised(Raise("ValueError", "negative dimensions are not allowed"),
                    b.records)
        ELSE [b EXCEPT !.self.dtype = DType(k),
                       !.self.data = Zeros(b.self.nbins, DType(k))]

\* process(self, cat1, cat2=None) for G2, N2, K2; process(self, cat1, cat2)
\* for NG, NK, KG.
ProcessAlwaysOptional(k) == FALSE

ProcessNeedsCat2(k) ==
    k \in {"NGCorrelation", "NKCorrelation", "KGCorrelation"}

\* The least and greatest number of reference catalogs write accepts after
\* file_name: write(file_name) for G2, K2, KG; write(file_name, rr, dr=None,
\* rd=None) for N2; write(file_name, rg=None) for NG, write(file_name,
\* rk=None) for NK.
WriteRefs(k) ==
    CASE k = "N2Correlation" -> <<1, 3>>
      [] k \in {"NGCorrelation", "NKCorrelation"} -> <<0, 1>>
      [] OTHER -> <<0, 0>>

\* self.data[:] = 0
ClearDataToOnes(data, dtype) ==
    [i \in DOMAIN data |-> IF dtype = "complex" THEN <<1, 0>> ELSE 1]

ClearData(data, dtype) == [i \in DOMAIN data |-> Zero(dtype)]

(***************************************************************************)
(* The constructor's inputs.                                               *)
(***************************************************************************)
Opt(k, V) == {EmptyDict} \cup {Entry(k, v) : v \in V}

SepValues == (-1)..MaxSep

NbinsValues == (-1)..MaxNbins

\* bin_size in thousandths
BinSizeValues == {-1000, 0, 500}

Join(S, T) == {Update(a, b) : a \in S, b \in T}

SubDicts(d) == {[k \in K |-> d[k]] : K \in SUBSET DOMAIN d}

\* Every choice of the four binning parameters, absent or present.
BinningDicts ==
    Join(Join(Opt("min_sep", SepValues), Opt("max_sep", SepValues)),
         Join(Opt("nbins", NbinsValues), Opt("bin_size", BinSizeValues)))

BaseBinning ==
    [min_sep |-> 1, max_sep |-> MaxSep, nbins |-> MaxNbins, bin_size |-> 500]

\* What an override may carry: each value differs from BaseBinning's.
BaseOverride ==
    [min_sep |-> MaxSep, max_sep |-> MaxSep + 1, nbins |-> 1,
     bin_size |-> 1000, sep_units |-> "arcmin"]

Extras == {EmptyDict, [bin_slop |-> 500, verbose |-> 2]}

\* Inputs that vary the binning parameters.
BinningInputs ==
    {[config |-> [none |-> FALSE, d |-> Update(b, Entry("sep_units", u))],
      kwargs |-> EmptyDict] :
        b \in BinningDicts, u \in {"radians", "arcmin"}}

\* Inputs that vary sep_units and the coordinate columns.
UnitInputs ==
    {[config |-> [none |-> FALSE, d |-> d], kwargs |-> EmptyDict] :
        d \in Join(Join(SubDicts(BaseBinning),
                        Opt("sep_units", {"radians", "parsec"})),
                   Join(Opt("x_col", {1}), Opt("y_col", {2})))}

\* Inputs that vary the split between the config dict and the kwargs.
OverrideInputs ==
    {[config |-> c, kwargs |-> kw] :
        c \in {[none |-> TRUE, d |-> EmptyDict]} \cup
              {[none |-> FALSE, d |-> d] :
                  d \in Join(Join(SubDicts(BaseBinning),
                                  Opt("sep_units", {"radians"})), Extras)},
        kw \in SubDicts(BaseOverride)}

Inputs == BinningInputs \cup UnitInputs \cup OverrideInputs

(***************************************************************************)
(* The state machine.                                                      *)
(***************************************************************************)
NoCall == [op |-> "none", nargs |-> 0]

Init ==
    /\ kind \in Kinds
    /\ logger \in {NoLogger, UserLogger}
    /\ \E in \in Inputs : config = in.config /\ kwargs = in.kwargs
    /\ self = NoObject
    /\ records = [n \in LoggerNames |-> <<>>]
    /\ exc = NoExc
    /\ lastCall = NoCall

Args == <<kind, config, kwargs, logger>>

\* corr = <kind>(config, logger=logger, **kwargs)
Construct ==
    /\ lastCall = NoCall
    /\ LET r == DerivedInit(kind, config, logger, kwargs, records)
       IN  /\ self' = r.self
           /\ records' = r.records
           /\ exc' = r.exc
    /\ lastCall' = [op |-> "__init__", nargs |-> 0]
    /\ UNCHANGED Args

CanLog == self.alive /\ Len(records[self.logger.name]) < MaxRecords

\* A method call whose arguments do not fit the signature.
BadCall(op, n) ==
    /\ exc' = Raise("TypeError", "wrong number of arguments")
    /\ lastCall' = [op |-> op, nargs |-> n]
    /\ UNCHANGED <<self, records, Args>>

\* A stub: one info record, nothing else.
Stub(op, n, msg) ==
    /\ records' = Info(records, self.logger, msg)
    /\ exc' = NoExc
    /\ lastCall' = [op |-> op, nargs |-> n]
    /\ UNCHANGED <<self, Args>>

\* corr.process(cat1) or corr.process(cat1, cat2)
Process(ncat) ==
    /\ CanLog
    /\ IF ncat = 1 /\ ProcessNeedsCat2(kind)
       THEN BadCall("process", ncat)
       ELSE Stub("process", ncat, "Process " \o Tag(kind) \o " correlations...  or not.")

\* corr.write(file_name, ...) with nrefs reference catalogs
Write(nrefs) ==
    /\ CanLog
    /\ IF nrefs < WriteRefs(kind)[1] \/ nrefs > WriteRefs(kind)[2]
       THEN BadCall("write", nrefs)
       ELSE Stub("write", nrefs, "Writing " \o Tag(kind) \o " correlations to %s")

\* G2Correlation.writeM2(file_name)
WriteM2 ==
    /\ CanLog
    /\ kind = "G2Correlation"
    /\ Stub("writeM2", 0, "Writing Map^2 from G2 correlations to %s")

\* NGCorrelation.writeNM(file_name, rg=None)
WriteNM(nrefs) ==
    /\ CanLog
    /\ kind = "NGCorrelation"
    /\ IF nrefs > 1
       THEN BadCall("writeNM", nrefs)
       ELSE Stub("writeNM", nrefs, "Writing NMap from NG correlations to %s")

\* NGCorrelation.writeNorm(file_name, gg, nn, rr, nr=None, rg=None)
WriteNorm(nrefs) ==
    /\ CanLog
    /\ kind = "NGCorrelation"
    /\ IF nrefs < 3 \/ nrefs > 5
       THEN BadCall("writeNorm", nrefs)
       ELSE Stub("writeNorm", nrefs, "Writing Norm from NG correlations to %s")

\* corr.clear()
Clear ==
    /\ self.alive
    /\ self' = [self EXCEPT !.data = ClearData(self.data, self.dtype)]
    /\ exc' = NoExc
    /\ lastCall' = [op |-> "clear", nargs |-> 0]
    /\ UNCHANGED <<records, Args>>

Next ==
    \/ Construct
    \/ \E ncat \in 1..2 : Process(ncat)
    \/ \E nrefs \in 0..MaxRefs : Write(nrefs)
    \/ WriteM2
    \/ \E nrefs \in 0..MaxRefs : WriteNM(nrefs)
    \/ \E nopt \in 0..MaxRefs : WriteNorm(3 + nopt)
    \/ Clear

Spec == Init /\ [][Next]_vars

(***************************************************************************)
(* Vocabulary of the properties.                                           *)
(***************************************************************************)
\* Order and sign of rationals <<num, den>> with den > 0.
RatLess(a, b) == a[1] * b[2] < b[1] * a[2]

RatPos(a) == a[1] > 0

InitCalled == lastCall # NoCall

InitFailed == InitCalled /\ ~self.alive

\* The keys the caller supplied, in the config dict or as a keyword.
SuppliedKeys == DOMAIN config.d \cup DOMAIN kwargs

SuppliedBinning == BinningKeys \cap SuppliedKeys

\* The value the caller supplied for k, a keyword before the config dict.
Supplied(k) == IF k \in DOMAIN kwargs THEN kwargs[k] ELSE config.d[k]

UnitName == IF "sep_units" \in SuppliedKeys THEN Supplied("sep_units") ELSE "arcsec"

UnitResolvable ==
    /\ "sep_units" \in SuppliedKeys
    /\ Supplied("sep_units") \in {"radians", "degrees", "arcmin", "arcsec"}

SepUnitsMessage == "sep_units is required if not using x_col,y_col"

\* ln(max_sep / min_sep) of the object, in thousandths.
LogRange == LogRatio(self.max_sep, self.min_sep).v

AllZero ==
    /\ DOMAIN self.data = 1..self.nbins
    /\ \A i \in DOMAIN self.data : self.data[i] = Zero(DType(kind))

\* Every supplied binning parameter is a valid one.
ValidValues ==
    /\ \A k \in {"min_sep", "max_sep"} \cap SuppliedKeys : Supplied(k) > 0
    /\ "nbins" \in SuppliedKeys => Supplied("nbins") >= 1
    /\ "bin_size" \in SuppliedKeys => Supplied("bin_size") > 0
    /\ {"min_sep", "max_sep"} \subseteq SuppliedKeys
          => Supplied("min_sep") < Supplied("max_sep")

(***************************************************************************)
(* C1.  With a resolvable sep_units and exactly min_sep, nbins, bin_size   *)
(* present, construction succeeds with max_sep = min_sep * exp(nbins *     *)
(* bin_size); with exactly max_sep, nbins, bin_size present it succeeds    *)
(* with min_sep = max_sep * exp(-nbins * bin_size).  The relation is       *)
(* stated in its logarithmic form, ln(max_sep / min_sep) = nbins *         *)
(* bin_size.  The code raises NameError in both branches.                  *)
(***************************************************************************)
C1_FourthIsComputed ==
    (/\ InitCalled
     /\ ~config.none
     /\ UnitResolvable
     /\ ValidValues
     /\ \/ SuppliedBinning = {"min_sep", "nbins", "bin_size"}
        \/ SuppliedBinning = {"max_sep", "nbins", "bin_size"})
    => /\ self.alive
       /\ LogRange * self.bin_size[2] = self.nbins * self.bin_size[1]

(***************************************************************************)
(* C2.  When all four binning parameters are present after the merge, or   *)
(* at most two of them, construction fails with a configuration error      *)
(* (AttributeError, or KeyError for the unit) and yields no object.        *)
(***************************************************************************)
C2_WrongCountRejected ==
    (InitCalled /\ Cardinality(SuppliedBinning) # 3)
    => /\ ~self.alive
       /\ exc.type \in {"AttributeError", "KeyError"}

C2_Witness ==
    /\ InitCalled
    /\ Cardinality(SuppliedBinning) = 4
    /\ ~self.alive
    /\ exc.msg = "Only 3 of min_sep, max_sep, bin_size, nbins are allowed."

(***************************************************************************)
(* C3.  With min_sep and max_sep supplied, the object has bin_size * nbins *)
(* = ln(max_sep / min_sep) when nbins is supplied, and when bin_size is    *)
(* supplied it keeps bin_size and nbins is the least integer with nbins *  *)
(* bin_size >= ln(max_sep / min_sep).  Stated for 0 < min_sep < max_sep.   *)
(* The code accepts a negative bin_size, for which the ceiling is not that *)
(* least integer.                                                          *)
(***************************************************************************)
C3_BinGeometry ==
    (/\ self.alive
     /\ {"min_sep", "max_sep"} \subseteq SuppliedKeys
     /\ 0 < Supplied("min_sep")
     /\ Supplied("min_sep") < Supplied("max_sep"))
    => /\ "nbins" \in SuppliedKeys
            => self.bin_size[1] * self.nbins = LogRange * self.bin_size[2]
       /\ "bin_size" \in SuppliedKeys
            => /\ self.bin_size = <<Supplied("bin_size"), 1>>
               /\ self.nbins * Supplied("bin_size") >= LogRange
               /\ \A m \in (-8)..8 :
                     m * Supplied("bin_size") >= LogRange => self.nbins <= m

(***************************************************************************)
(* C4.  Construction fails when the configuration has neither sep_units    *)
(* nor a coordinate column, and x_col or y_col waives the requirement.     *)
(* C4_AnyColumnWaives is the claim as stated; the code looks at x_col      *)
(* alone, which C4_XColWaives states.                                      *)
(***************************************************************************)
C4_AnyColumnWaives ==
    (InitCalled /\ ~config.none)
    => /\ ({"sep_units", "x_col", "y_col"} \cap SuppliedKeys = {}) => InitFailed
       /\ ({"x_col", "y_col"} \cap SuppliedKeys # {}) => exc.msg # SepUnitsMessage

C4_XColWaives ==
    (InitCalled /\ ~config.none)
    => /\ ({"sep_units", "x_col"} \cap SuppliedKeys = {})
            <=> (InitFailed /\ exc = Raise("AttributeError", SepUnitsMessage))
       /\ ("x_col" \in SuppliedKeys /\ "sep_units" \notin SuppliedKeys
           /\ ValidValues /\ "max_sep" \in SuppliedKeys
           /\ "min_sep" \in SuppliedKeys /\ Cardinality(SuppliedBinning) = 3)
            => /\ self.alive
               /\ self.min_sep = Times(Supplied("min_sep"), angle_units["arcsec"])

C4_Witness ==
    /\ self.alive
    /\ "x_col" \in SuppliedKeys
    /\ "sep_units" \notin SuppliedKeys
    /\ self.min_sep = Times(Supplied("min_sep"), angle_units["arcsec"])

(***************************************************************************)
(* C5.  With config omitted and kwargs holding a resolvable sep_units and  *)
(* exactly three binning parameters, construction succeeds.  The code      *)
(* calls update on the copy of None.                                       *)
(***************************************************************************)
C5_KwargsOnly ==
    (/\ InitCalled
     /\ config.none
     /\ UnitResolvable
     /\ ValidValues
     /\ Cardinality(BinningKeys \cap DOMAIN kwargs) = 3)
    => self.alive

(***************************************************************************)
(* C6.  The object's config holds, for every key, the override's value if  *)
(* there is one and the mapping's otherwise; the resolution uses those     *)
(* values; and exactly three binning parameters are present in the merge.  *)
(***************************************************************************)
C6_OverridesWin ==
    self.alive
    => /\ DOMAIN self.config = SuppliedKeys
       /\ \A k \in DOMAIN kwargs : self.config[k] = kwargs[k]
       /\ \A k \in DOMAIN config.d \ DOMAIN kwargs : self.config[k] = config.d[k]
       /\ Cardinality(SuppliedBinning) = 3
       /\ "min_sep" \in SuppliedKeys
             => self.min_sep = Times(Supplied("min_sep"), angle_units[UnitName])
       /\ "max_sep" \in SuppliedKeys
             => self.max_sep = Times(Supplied("max_sep"), angle_units[UnitName])
       /\ "nbins" \in SuppliedKeys => self.nbins = Supplied("nbins")
       /\ "bin_size" \in SuppliedKeys => self.bin_size = <<Supplied("bin_size"), 1>>
       /\ "bin_slop" \in SuppliedKeys => self.bin_slop = Supplied("bin_slop")

C6_Witness ==
    /\ self.alive
    /\ \E k \in DOMAIN kwargs \cap DOMAIN config.d : kwargs[k] # config.d[k]
    /\ \E k \in BinningKeys \cap DOMAIN kwargs : k \notin DOMAIN config.d
    /\ \E k \in BinningKeys \cap DOMAIN config.d : k \notin DOMAIN kwargs

(***************************************************************************)
(* C7.  Every constructed object has 0 < min_sep < max_sep and nbins >= 1, *)
(* and a configuration with three binning parameters and a resolvable unit *)
(* whose supplied separation is zero or negative is rejected with a        *)
(* ValueError.  The code validates none of this.                           *)
(***************************************************************************)
C7_NoInvalidBinning ==
    /\ self.alive
          => /\ RatPos(self.min_sep)
             /\ RatLess(self.min_sep, self.max_sep)
             /\ self.nbins >= 1
    /\ (/\ InitCalled
        /\ ~config.none
        /\ UnitResolvable
        /\ Cardinality(SuppliedBinning) = 3
        /\ \E k \in {"min_sep", "max_sep"} \cap SuppliedKeys : Supplied(k) <= 0)
          => (~self.alive /\ exc.type = "ValueError")

(***************************************************************************)
(* C8.  clear() leaves every cell of the container zero, the container     *)
(* nbins long, and min_sep, max_sep, bin_size, nbins, bin_slop unchanged.  *)
(***************************************************************************)
C8_ClearZeroes ==
    [][lastCall'.op = "clear"
         => /\ self'.alive
            /\ DOMAIN self'.data = 1..self'.nbins
            /\ \A i \in DOMAIN self'.data : self'.data[i] = Zero(DType(kind))
            /\ self'.min_sep = self.min_sep
            /\ self'.max_sep = self.max_sep
            /\ self'.bin_size = self.bin_size
            /\ self'.nbins = self.nbins
            /\ self'.bin_slop = self.bin_slop]_vars

C8_Witness ==
    /\ lastCall.op = "clear"
    /\ self.nbins >= 2
    /\ AllZero

C10_PassedLoggerIsUsed ==
    (self.alive /\ logger # NoLogger)
    => /\ self.logger = logger
       /\ Len(records[logger.name]) >= 1
       /\ records["treecorr"] = <<>>

====
